---- MODULE Spec2Model ----
(***************************************************************************)
(* Model of gensenc (src/main.go): the reflection-driven binary codec      *)
(* EncodeValue / DecodeValue and its entry points Encode / Decode.         *)
(*                                                                         *)
(* Representation.                                                         *)
(*   byte            a number in 0..255                                    *)
(*   64-bit word     8 base-256 digits, most significant digit first       *)
(*   String value    the sequence of its bytes                             *)
(*   Int/Uint value  its w base-256 digits (two's complement), most        *)
(*                   significant first, w the native width in bytes        *)
(*   Bool value      <<0>> or <<1>>;  Chan value: <<>> (a nil channel)     *)
(*   Struct value    the sequence of its field values, declaration order   *)
(*   Slice, Array    the sequence of the elements                          *)
(*   Map value       [nil |-> BOOLEAN, ents |-> set of <<key, value>>]     *)
(*   Pointer value   the pointee (always allocated)                        *)
(* A type is a record whose field k names the reflect.Kind.                *)
(***************************************************************************)
EXTENDS Integers, Sequences, FiniteSets, TLC

\* ------------------------------------------------------------------ types
TString == [k |-> "String"]
TBool == [k |-> "Bool"]
TChan == [k |-> "Chan"]
TInt(w) == [k |-> "Int", w |-> w]
TUint(w) == [k |-> "Uint", w |-> w]
TSlice(e) == [k |-> "Slice", elem |-> e]
TArray(n, e) == [k |-> "Array", n |-> n, elem |-> e]
TMap(key, e) == [k |-> "Map", key |-> key, elem |-> e]
TPtr(e) == [k |-> "Pointer", elem |-> e]
TStruct(fs) == [k |-> "Struct", fields |-> fs]
\* a struct field: exp is TRUE for an exported field
Fld(exp, t) == [exp |-> exp, t |-> t]

\* ------------------------------------------------------- words and bytes
RECURSIVE Word(_, _)
\* the w low base-256 digits of the integer n (two's complement for n < 0)
Word(n, w) ==
    IF w = 0 THEN <<>> ELSE Word(n \div 256, w - 1) \o <<n % 256>>

RECURSIVE Rep(_, _)
Rep(x, n) == IF n <= 0 THEN <<>> ELSE <<x>> \o Rep(x, n - 1)

Reverse(s) == [i \in 1..Len(s) |-> s[Len(s) + 1 - i]]

\* uint64(len(...)), uint64(v.Len()): lines 19, 34, 52
LenWord(n) == Word(n, 8)

\* binary.LittleEndian.PutUint64(l, x): least significant byte first
PutUint64Big(x) == x
PutUint64(x) == Reverse(x)

\* binary.LittleEndian.Uint64(l)
Uint64(l) == Reverse(l)

\* v.Int(): the native value sign-extended to int64, then uint64(...)
VInt(v) == Rep(IF v[1] >= 128 THEN 255 ELSE 0, 8 - Len(v)) \o v

\* v.Uint(): the native value zero-extended to uint64
VUint(v) == Rep(0, 8 - Len(v)) \o v

\* v.SetInt / v.SetUint: the word narrowed to the native width w
Narrow(x, w) == SubSeq(x, 9 - w, 8)

\* a word below 2^31, the range in which the model does arithmetic
Fits(x) == /\ \A i \in 1..4 : x[i] = 0
           /\ x[5] < 128
ToNat(x) == ((x[5] * 256 + x[6]) * 256 + x[7]) * 256 + x[8]
\* int(length) < 0: the word is 2^63 or more
Negative(x) == x[1] >= 128
\* a word 2^48 or more exceeds the allocator's limit whatever the element size
OverMaxAlloc(x) == x[1] # 0 \/ x[2] # 0

\* ---------------------------------------------------------------- values
RECURSIVE Zero(_)
RECURSIVE ZeroFields(_, _)
\* reflect.New(t).Elem(), and the zeroed elements of Clear / Grow
Zero(t) ==
    CASE t.k = "String" -> <<>>
      [] t.k \in {"Int", "Uint"} -> Rep(0, t.w)
      [] t.k = "Bool" -> <<0>>
      [] t.k = "Chan" -> <<>>
      [] t.k = "Struct" -> ZeroFields(t.fields, 1)
      [] t.k = "Slice" -> <<>>
      [] t.k = "Array" -> Rep(Zero(t.elem), t.n)
      [] t.k = "Map" -> [nil |-> TRUE, ents |-> {}]
      [] t.k = "Pointer" -> Zero(t.elem)
ZeroFields(fs, i) ==
    IF i > Len(fs) THEN <<>> ELSE <<Zero(fs[i].t)>> \o ZeroFields(fs, i + 1)

\* v.Field(i).CanInterface(): false exactly for a non-exported field
CanInterfaceAll(f) == TRUE
CanInterface(f) == f.exp

RECURSIVE Orders(_)
\* v.MapKeys(): the pairs of a map in every order the runtime may produce
Orders(S) ==
    IF S = {} THEN {<<>>}
    ELSE UNION {{<<p>> \o s : s \in Orders(S \ {p})} : p \in S}

\* --------------------------------------------------------------- encoder
EncOk(b) == [err |-> "nil", b |-> b]
\* return nil, err
EncErr(e) == [err |-> e, b |-> <<>>]

\* binary.Write(buf, binary.LittleEndian, v.Interface()) of the default case
BinaryWrite(t, v) ==
    IF t.k = "Bool" THEN EncOk(<<IF v[1] # 0 THEN 1 ELSE 0>>)
    ELSE EncErr("NotFixedSize")

\* lines 66-71: every integer kind is written as one 8-byte field
IntFieldNative(t, v) == Reverse(v)
IntField(t, v) ==
    IF t.k = "Int" THEN PutUint64(VInt(v)) ELSE PutUint64(VUint(v))

RECURSIVE EncodeValue(_, _)
RECURSIVE EncodeAll(_, _)
\* the loops "b, err := EncodeValue(x); if err != nil {return nil, err};
\* buf.Write(b)" over the items its[i..], each item a <<type, value>>
EncodeAll(its, i) ==
    IF i > Len(its) THEN {EncOk(<<>>)}
    ELSE UNION {
           IF h.err # "nil" THEN {EncErr(h.err)}
           ELSE {IF r.err # "nil" THEN EncErr(r.err) ELSE EncOk(h.b \o r.b)
                   : r \in EncodeAll(its, i + 1)}
           : h \in EncodeValue(its[i][1], its[i][2])}

\* buf.Write(l) before a loop: the count field ahead of the items
WithCount(n, outs) ==
    {IF o.err # "nil" THEN o ELSE EncOk(PutUint64(LenWord(n)) \o o.b)
       : o \in outs}

\* the exported fields of a struct as items
RECURSIVE FieldItems(_, _, _)
FieldItems(fs, v, i) ==
    IF i > Len(fs) THEN <<>>
    ELSE (IF CanInterface(fs[i]) THEN <<<<fs[i].t, v[i]>>>> ELSE <<>>)
           \o FieldItems(fs, v, i + 1)

ElemItems(t, v) == [i \in 1..Len(v) |-> <<t.elem, v[i]>>]

\* key, value, key, value, ... of the pairs in the order ps
RECURSIVE PairItems(_, _, _)
PairItems(t, ps, i) ==
    IF i > Len(ps) THEN <<>>
    ELSE <<<<t.key, ps[i][1]>>, <<t.elem, ps[i][2]>>>> \o PairItems(t, ps, i + 1)

\* EncodeValue(v reflect.Value) ([]byte, error): the set of results the call
\* can return (more than one only through the map iteration order)
EncodeValue(t, v) ==
    CASE t.k = "String" -> {EncOk(PutUint64(LenWord(Len(v))) \o v)}
      [] t.k = "Struct" -> EncodeAll(FieldItems(t.fields, v, 1), 1)
      [] t.k = "Slice" -> WithCount(Len(v), EncodeAll(ElemItems(t, v), 1))
      [] t.k = "Array" -> EncodeAll(ElemItems(t, v), 1)
      [] t.k = "Map" ->
           UNION {WithCount(Cardinality(v.ents), EncodeAll(PairItems(t, ps, 1), 1))
                    : ps \in Orders(v.ents)}
      [] t.k \in {"Int", "Uint"} -> {EncOk(IntField(t, v))}
      [] OTHER -> {BinaryWrite(t, v)}

\* Encode(a any) ([]byte, error)
Encode(t, v) == EncodeValue(t, v)

\* --------------------------------------------------------------- decoder
\* the result of a DecodeValue call: the error, the reader's position (the
\* number of bytes consumed from the start of the buffer) and the value the
\* target handle shows afterwards
D(e, pos, v) == [err |-> e, pos |-> pos, val |-> v]

\* io.ReadFull(r, p) with len(p) = n on a bytes.Reader over buf at pos
ReadFullLax(buf, pos, n) ==
    [err |-> "nil",
     pos |-> IF pos + n <= Len(buf) THEN pos + n ELSE Len(buf),
     data |-> SubSeq(SubSeq(buf, pos + 1, Len(buf)) \o Rep(0, n), 1, n)]
ReadFull(buf, pos, n) ==
    IF pos + n <= Len(buf)
    THEN [err |-> "nil", pos |-> pos + n, data |-> SubSeq(buf, pos + 1, pos + n)]
    ELSE IF pos >= Len(buf)
    THEN [err |-> "EOF", pos |-> pos, data |-> <<>>]
    ELSE [err |-> "ErrUnexpectedEOF", pos |-> Len(buf),
          data |-> SubSeq(buf, pos + 1, Len(buf))]

\* binary.Read(r, binary.LittleEndian, v.Interface()) of the default case:
\* the data handed over is the value, not a pointer to it, so after the
\* fast path has taken the bytes of a basic type the call reports an
\* invalid type; nothing is stored
BinaryRead(buf, pos, t) ==
    IF t.k = "Bool"
    THEN LET h == ReadFull(buf, pos, 1)
         IN  [err |-> IF h.err # "nil" THEN h.err ELSE "InvalidType", pos |-> h.pos]
    ELSE [err |-> "InvalidType", pos |-> pos]

\* v.Clear() on a map (after MakeMap for a nil one)
MapKeep(m) == [nil |-> FALSE, ents |-> m.ents]
MapClear(m) == [nil |-> FALSE, ents |-> {}]

\* v.SetMapIndex(key.Elem(), value.Elem())
SetMapIndexFirst(m, key, e) ==
    IF \E p \in m.ents : p[1] = key THEN m
    ELSE [m EXCEPT !.ents = @ \cup {<<key, e>>}]
SetMapIndex(m, key, e) ==
    [m EXCEPT !.ents = {p \in @ : p[1] # key} \cup {<<key, e>>}]

\* v.Clear() on a slice: the elements are zeroed, the length stays
SliceClear(t, v) == Rep(Zero(t.elem), Len(v))

\* v.Grow(n); v.SetLen(n) on a slice whose capacity is its length: the
\* slots beyond the old length are freshly allocated, zeroed memory
SetLen(t, v, n) == SubSeq(v \o Rep(Zero(t.elem), n), 1, n)

RECURSIVE ZeroSized(_)
\* a type that occupies no memory
ZeroSized(t) ==
    CASE t.k = "Struct" -> \A i \in 1..Len(t.fields) : ZeroSized(t.fields[i].t)
      [] t.k = "Array" -> t.n = 0 \/ ZeroSized(t.elem)
      [] OTHER -> FALSE

\* the outcome of asking the allocator for `length` elements when length is
\* 2^31 or more: a panic where the build panics whatever the memory of the
\* machine; any other such request lies outside the model
BigAlloc(length, elemZeroSized) ==
    IF OverMaxAlloc(length) /\ ~elemZeroSized THEN "panic" ELSE "OutOfModel"

RECURSIVE DecodeValue(_, _, _, _, _)
RECURSIVE DecodeFields(_, _, _, _, _, _)
RECURSIVE DecodeElems(_, _, _, _, _, _, _)
RECURSIVE DecodePairs(_, _, _, _, _)

\* lines 102-110: the struct loop from field i on
DecodeFields(buf, pos, fs, v, canSet, i) ==
    IF i > Len(fs) THEN D("nil", pos, v)
    ELSE IF ~CanInterface(fs[i]) THEN DecodeFields(buf, pos, fs, v, canSet, i + 1)
    ELSE LET r == DecodeValue(buf, pos, fs[i].t, v[i], canSet)
             w == [v EXCEPT ![i] = r.val]
         IN  IF r.err # "nil" THEN D(r.err, r.pos, w)
             ELSE DecodeFields(buf, r.pos, fs, w, canSet, i + 1)

\* lines 120-125, 127-132: the element loop over slots i..n
DecodeElems(buf, pos, te, v, canSet, i, n) ==
    IF i > n THEN D("nil", pos, v)
    ELSE LET r == DecodeValue(buf, pos, te, v[i], canSet)
             w == [v EXCEPT ![i] = r.val]
         IN  IF r.err # "nil" THEN D(r.err, r.pos, w)
             ELSE DecodeElems(buf, r.pos, te, w, canSet, i + 1, n)

\* lines 143-155: the pair loop with rem iterations to go; rem < 0 stands
\* for a count of 2^31 or more, which a buffer of the model never satisfies
DecodePairs(buf, pos, t, m, rem) ==
    IF rem = 0 THEN D("nil", pos, m)
    ELSE LET kr == DecodeValue(buf, pos, TPtr(t.key), Zero(t.key), FALSE)
         IN  IF kr.err # "nil" THEN D(kr.err, kr.pos, m)
             ELSE LET vr == DecodeValue(buf, kr.pos, TPtr(t.elem), Zero(t.elem), FALSE)
                  IN  IF vr.err # "nil" THEN D(vr.err, vr.pos, m)
                      ELSE IF rem < 0 /\ vr.pos = pos THEN D("OutOfModel", pos, m)
                      ELSE DecodePairs(buf, vr.pos, t,
                                       SetMapIndex(m, kr.val, vr.val),
                                       IF rem < 0 THEN rem ELSE rem - 1)

\* DecodeValue(r io.Reader, v reflect.Value) error.  canSet is v.CanSet().
\* v.CanInterface() holds of every value the traversal reaches, because the
\* struct loop never descends into a non-exported field.
DecodeValue(buf, pos, t, v, canSet) ==
    CASE t.k = "String" ->
           IF ~canSet THEN D("ErrCantSet", pos, v)
           ELSE LET h == ReadFull(buf, pos, 8)
                IN  IF h.err # "nil" THEN D(h.err, h.pos, v)
                    ELSE LET length == Uint64(h.data)
                         IN  IF ~Fits(length)
                             THEN D(BigAlloc(length, FALSE), h.pos, v)
                             ELSE LET b == ReadFull(buf, h.pos, ToNat(length))
                                  IN  IF b.err # "nil" THEN D(b.err, b.pos, v)
                                      ELSE D("nil", b.pos, b.data)
      [] t.k = "Struct" -> DecodeFields(buf, pos, t.fields, v, canSet, 1)
      [] t.k = "Slice" ->
           LET h == ReadFull(buf, pos, 8)
           IN  IF h.err # "nil" THEN D(h.err, h.pos, v)
               ELSE LET length == Uint64(h.data)
                        cleared == SliceClear(t, v)
                    IN  IF ~canSet \/ Negative(length)
                        THEN D("panic", h.pos, cleared)
                        ELSE IF ~Fits(length)
                        THEN D(BigAlloc(length, ZeroSized(t.elem)), h.pos, cleared)
                        ELSE DecodeElems(buf, h.pos, t.elem,
                                         SetLen(t, cleared, ToNat(length)),
                                         TRUE, 1, ToNat(length))
      [] t.k = "Array" -> DecodeElems(buf, pos, t.elem, v, canSet, 1, t.n)
      [] t.k = "Map" ->
           LET h == ReadFull(buf, pos, 8)
           IN  IF h.err # "nil" THEN D(h.err, h.pos, v)
               ELSE LET length == Uint64(h.data)
                    IN  IF v.nil /\ ~canSet THEN D("panic", h.pos, v)
                        ELSE DecodePairs(buf, h.pos, t, MapClear(v),
                                         IF Fits(length) THEN ToNat(length) ELSE -1)
      [] t.k \in {"Int", "Uint"} ->
           IF ~canSet THEN D("ErrCantSet", pos, v)
           ELSE LET h == ReadFull(buf, pos, 8)
                IN  IF h.err # "nil" THEN D(h.err, h.pos, v)
                    ELSE D("nil", h.pos, Narrow(Uint64(h.data), t.w))
      [] t.k = "Pointer" -> DecodeValue(buf, pos, t.elem, v, TRUE)
      [] OTHER ->
           IF ~canSet THEN D("ErrCantSet", pos, v)
           ELSE LET b == BinaryRead(buf, pos, t)
                IN  D(b.err, b.pos, v)

\* Decode(b []byte, a any) error: a is a pointer to the target (byRef) or
\* the target itself; reflect.ValueOf(a) is never settable
DecodeSettable(buf, t, v, byRef) ==
    DecodeValue(buf, 0, IF byRef THEN TPtr(t) ELSE t, v, TRUE)
Decode(buf, t, v, byRef) ==
    DecodeValue(buf, 0, IF byRef THEN TPtr(t) ELSE t, v, FALSE)

\* ---------------------------------------------------------------- bounds
\* longest string, longest slice, largest map, longest run of trailing
\* bytes and longest run of hand-written map pairs
MaxStrLen == 2
MaxSliceLen == 3
MaxMapSize == 2
MaxTail == 2
MaxPairs == 2

SeqsUpTo(S, n) == UNION {[1..m -> S] : m \in 0..n}

\* --------------------------------------------------- the values exercised
Int8 == TInt(1)
Int16 == TInt(2)
Int32 == TInt(4)
Int64 == TInt(8)
Uint8 == TUint(1)
Uint16 == TUint(2)
Uint32 == TUint(4)
Uint64T == TUint(8)
\* struct { X int32; y uint8 }
RecP == TStruct(<<Fld(TRUE, Int32), Fld(FALSE, Uint8)>>)
\* struct { X int32 }
RecX == TStruct(<<Fld(TRUE, Int32)>>)
\* struct { N uint16; S string }
RecS == TStruct(<<Fld(TRUE, Uint16), Fld(TRUE, TString)>>)
\* struct { B bool; X int32 }
RecB == TStruct(<<Fld(TRUE, TBool), Fld(TRUE, Int32)>>)
\* struct { X int32; C chan int }
RecC == TStruct(<<Fld(TRUE, Int32), Fld(TRUE, TChan)>>)
\* struct { L []uint16; h string; A [2]int8 }
RecN == TStruct(<<Fld(TRUE, TSlice(Uint16)), Fld(FALSE, TString),
                  Fld(TRUE, TArray(2, Int8))>>)

Types ==
    {TString, TBool, Int8, Int16, Int32, Int64, Uint8, Uint16, Uint32, Uint64T,
     RecP, RecX, RecS, RecB, RecC, RecN,
     TSlice(Int32), TSlice(TString), TSlice(RecP), TArray(2, Uint8),
     TMap(TString, Int32), TMap(Uint8, TString)}

Strs == SeqsUpTo({97, 98}, MaxStrLen)

\* the maps over the pairs P with at most n entries, one value per key
MapsOver(P, n) ==
    {[nil |-> FALSE, ents |-> E] :
       E \in {F \in SUBSET P : /\ Cardinality(F) <= n
                               /\ \A p, q \in F : p[1] = q[1] => p = q}}

RECURSIVE Vals(_, _)
RECURSIVE FieldVals(_, _, _)
\* the values of type t put through the codec, d the nesting depth of the
\* value: the full range at the top level (d = 0), fewer inside a composite
Vals(t, d) ==
    CASE t.k = "String" ->
           IF d = 0 THEN Strs ELSE IF d = 1 THEN {<<>>, <<107>>} ELSE {<<107>>}
      [] t.k = "Int" ->
           {Word(n, t.w) : n \in IF d = 0 THEN {-128, -1, 0, 1, 7, 1000}
                                  ELSE IF d = 1 THEN {1, -1, 1000}
                                  ELSE {-1, 1000}}
      [] t.k = "Uint" ->
           {Word(n, t.w) : n \in IF d = 0 THEN {-1, 0, 5, 255, 1000}
                                  ELSE IF d = 1 THEN {5, -1}
                                  ELSE {5}}
      [] t.k = "Bool" -> {<<0>>, <<1>>}
      [] t.k = "Chan" -> {<<>>}
      [] t.k = "Struct" -> FieldVals(t.fields, 1, d + 1)
      [] t.k = "Slice" -> SeqsUpTo(Vals(t.elem, d + 1), MaxSliceLen)
      [] t.k = "Array" -> [1..t.n -> Vals(t.elem, d + 1)]
      [] t.k = "Map" ->
           {[nil |-> TRUE, ents |-> {}]}
             \cup MapsOver(Vals(t.key, d + 1) \X Vals(t.elem, d + 1), MaxMapSize)
FieldVals(fs, i, d) ==
    IF i > Len(fs) THEN {<<>>}
    ELSE {<<x>> \o r : x \in Vals(fs[i].t, d), r \in FieldVals(fs, i + 1, d)}

RECURSIVE Full(_)
RECURSIVE FullFields(_, _)
\* a populated prior content for a target of type t
Full(t) ==
    CASE t.k = "String" -> <<98>>
      [] t.k \in {"Int", "Uint"} -> Word(9, t.w)
      [] t.k = "Bool" -> <<1>>
      [] t.k = "Chan" -> <<>>
      [] t.k = "Struct" -> FullFields(t.fields, 1)
      [] t.k = "Slice" -> Rep(Full(t.elem), 2)
      [] t.k = "Array" -> Rep(Full(t.elem), t.n)
      [] t.k = "Map" ->
           [nil |-> FALSE,
            ents |-> {<<key, Full(t.elem)>> : key \in Vals(t.key, 1) \cup {Full(t.key)}}]
FullFields(fs, i) ==
    IF i > Len(fs) THEN <<>> ELSE <<Full(fs[i].t)>> \o FullFields(fs, i + 1)

\* the prior contents a decode target may hold: the fresh (zero) value, a
\* populated one, and for a map also an allocated empty one
Targets(t) ==
    {Zero(t), Full(t)} \cup (IF t.k = "Map" THEN {[nil |-> FALSE, ents |-> {}]} ELSE {})

Tails == SeqsUpTo({0, 255}, MaxTail) \ {<<>>}

\* length fields written into a frame by hand: small counts, a count beyond
\* the bytes that follow, 2^63 - 1, 2^63 and 2^64 - 1
LenFields ==
    {Word(n, 8) : n \in 0..(MaxSliceLen + 1) \cup {10}}
      \cup {<<127>> \o Rep(255, 7), <<128>> \o Rep(0, 7), Rep(255, 8)}

RECURSIVE Concat(_, _)
Concat(ss, i) == IF i > Len(ss) THEN <<>> ELSE ss[i] \o Concat(ss, i + 1)

\* the only encoding of a value that holds no map
TheEnc(t, v) == (CHOOSE o \in EncodeValue(t, v) : TRUE).b

\* a map frame written pair by pair, keys possibly repeated
PairFrame(t, ps) ==
    PutUint64(LenWord(Len(ps)))
      \o Concat([i \in 1..Len(ps) |->
                   TheEnc(t.key, ps[i][1]) \o TheEnc(t.elem, ps[i][2])], 1)

\* ---------------------------------------------------------- state machine
VARIABLES
    pc,     \* "start", "encoded", "twice", "ready", "decoded", "decoded2"
    ty,     \* the type of the value and of the decode target
    val,    \* the value handed to Encode
    enc,    \* the result of Encode(val)
    enc2,   \* the result of a second Encode(val)
    mode,   \* how buf was made: "whole", "prefix", "tail", "forged", "pairs"
    buf,    \* the bytes handed to Decode
    fed,    \* mode "pairs": the pairs written into buf; "forged": the length field
    tgt,    \* the target's content before Decode
    byRef,  \* Decode got a pointer to the target (TRUE) or the target itself
    res,    \* the result of Decode(buf, target)
    res2    \* the result of Decode(enc2, target)

vars == <<pc, ty, val, enc, enc2, mode, buf, fed, tgt, byRef, res, res2>>

NoEnc == [err |-> "none", b |-> <<>>]
NoRes == [err |-> "none", pos |-> 0, val |-> <<>>]

Init ==
    /\ pc = "start"
    /\ ty \in Types
    /\ val \in Vals(ty, 0)
    /\ enc = NoEnc /\ enc2 = NoEnc
    /\ mode = "none" /\ buf = <<>> /\ fed = <<>>
    /\ tgt = Zero(ty) /\ byRef = TRUE
    /\ res = NoRes /\ res2 = NoRes

\* b, err := Encode(val)
EncodeCall ==
    /\ pc = "start"
    /\ \E o \in Encode(ty, val) : enc' = o
    /\ pc' = "encoded"
    /\ UNCHANGED <<ty, val, enc2, mode, buf, fed, tgt, byRef, res, res2>>

\* b2, err := Encode(val), the same value once more
EncodeAgain ==
    /\ pc = "encoded" /\ enc.err = "nil"
    /\ \E o \in Encode(ty, val) : enc2' = o
    /\ pc' = "twice"
    /\ UNCHANGED <<ty, val, enc, mode, buf, fed, tgt, byRef, res, res2>>

Feed(m, b, f) ==
    /\ mode' = m /\ buf' = b /\ fed' = f
    /\ pc' = "ready"
    /\ UNCHANGED <<ty, val, enc, enc2, tgt, byRef, res, res2>>

\* the encoding as it is
FeedWhole ==
    /\ pc \in {"encoded", "twice"} /\ enc.err = "nil"
    /\ Feed("whole", enc.b, <<>>)

\* a proper prefix of the encoding
FeedPrefix ==
    /\ pc = "encoded" /\ enc.err = "nil"
    /\ \E n \in 0..(Len(enc.b) - 1) : Feed("prefix", SubSeq(enc.b, 1, n), <<>>)

\* the encoding followed by further bytes
FeedTail ==
    /\ pc = "encoded" /\ enc.err = "nil"
    /\ \E t \in Tails : Feed("tail", enc.b \o t, <<>>)

\* the encoding with its leading length field overwritten
FeedForged ==
    /\ pc = "encoded" /\ enc.err = "nil"
    /\ ty.k \in {"String", "Slice", "Map"}
    /\ \E f \in LenFields :
         Feed("forged", PutUint64(f) \o SubSeq(enc.b, 9, Len(enc.b)), f)

\* a map frame written pair by pair
FeedPairs ==
    /\ pc = "start"
    /\ ty.k = "Map"
    /\ \E ps \in SeqsUpTo(Vals(ty.key, 1) \X Vals(ty.elem, 1), MaxPairs) :
         Feed("pairs", PairFrame(ty, ps), ps)

\* err := Decode(buf, &target)  or  err := Decode(buf, target)
DecodeCall ==
    /\ pc = "ready"
    /\ \E g \in Targets(ty), r \in BOOLEAN :
         /\ tgt' = g
         /\ byRef' = r
         /\ res' = Decode(buf, ty, g, r)
    /\ pc' = "decoded"
    /\ UNCHANGED <<ty, val, enc, enc2, mode, buf, fed, res2>>

\* err := Decode(b2, &target2), target2 holding what target held
DecodeSecond ==
    /\ pc = "decoded" /\ mode = "whole" /\ enc2.err = "nil"
    /\ res2' = Decode(enc2.b, ty, tgt, byRef)
    /\ pc' = "decoded2"
    /\ UNCHANGED <<ty, val, enc, enc2, mode, buf, fed, tgt, byRef, res>>

Next ==
    \/ EncodeCall
    \/ EncodeAgain
    \/ FeedWhole
    \/ FeedPrefix
    \/ FeedTail
    \/ FeedForged
    \/ FeedPairs
    \/ DecodeCall
    \/ DecodeSecond

Spec == Init /\ [][Next]_vars

\* no reachable call leaves the range the model covers
InModel == res.err # "OutOfModel" /\ res2.err # "OutOfModel"

\* ------------------------------------------------ vocabulary of the claims
RECURSIVE Plain(_)
\* a type built from String, integers, Record, VariableSequence,
\* FixedSequence and Mapping only
Plain(t) ==
    CASE t.k \in {"String", "Int", "Uint"} -> TRUE
      [] t.k = "Struct" -> \A i \in 1..Len(t.fields) : Plain(t.fields[i].t)
      [] t.k \in {"Slice", "Array"} -> Plain(t.elem)
      [] t.k = "Map" -> Plain(t.key) /\ Plain(t.elem)
      [] OTHER -> FALSE

RECURSIVE HasChan(_)
\* a type holding a value that has no fixed-width representation
HasChan(t) ==
    CASE t.k = "Chan" -> TRUE
      [] t.k = "Struct" -> \E i \in 1..Len(t.fields) : HasChan(t.fields[i].t)
      [] t.k \in {"Slice", "Array"} -> HasChan(t.elem)
      [] t.k = "Map" -> HasChan(t.key) \/ HasChan(t.elem)
      [] OTHER -> FALSE

RECURSIVE Observe(_, _)
RECURSIVE ObserveFields(_, _, _)
\* what a caller can compare of a value: the exported fields of a record,
\* the entries of a map
Observe(t, v) ==
    CASE t.k = "Struct" -> ObserveFields(t.fields, v, 1)
      [] t.k \in {"Slice", "Array"} -> [i \in 1..Len(v) |-> Observe(t.elem, v[i])]
      [] t.k = "Map" -> {<<Observe(t.key, p[1]), Observe(t.elem, p[2])>> : p \in v.ents}
      [] OTHER -> v
ObserveFields(fs, v, i) ==
    IF i > Len(fs) THEN <<>>
    ELSE (IF fs[i].exp THEN <<Observe(fs[i].t, v[i])>> ELSE <<>>)
           \o ObserveFields(fs, v, i + 1)

EndOfStream == {"EOF", "ErrUnexpectedEOF"}
Decoded == pc \in {"decoded", "decoded2"}
Encoded == pc # "start" /\ enc # NoEnc

\* ------------------------------------------------------------------- C1
\* C1 (as claimed): for every supported shape, booleans included, Encode
\* succeeds and decoding the encoding into a fresh target by reference
\* returns no error and leaves the target equal to the value, non-exported
\* fields aside.
C1_RoundTrip ==
    /\ (Encoded /\ ~HasChan(ty)) => enc.err = "nil"
    /\ (Decoded /\ mode = "whole" /\ byRef /\ tgt = Zero(ty) /\ ~HasChan(ty))
         => /\ res.err = "nil"
            /\ Observe(ty, res.val) = Observe(ty, val)

\* ------------------------------------------------------------------- C2
RECURSIVE LE(_, _)
\* the k-byte little-endian numeral of the number n
LE(n, k) == IF k = 0 THEN <<>> ELSE <<n % 256>> \o LE(n \div 256, k - 1)

\* an integer on the wire: the native bytes, least significant first, then
\* the sign (signed) or zero (unsigned) up to 8 bytes
RefInt(t, v) ==
    [i \in 1..8 |-> IF i <= t.w THEN v[t.w + 1 - i]
                    ELSE IF t.k = "Int" /\ v[1] >= 128 THEN 255 ELSE 0]

RECURSIVE RefWire(_, _)
RECURSIVE RefElems(_, _, _)
RECURSIVE RefFields(_, _, _)
RECURSIVE RefPairs(_, _, _)
\* the frames the wire format admits for the value v of type t
RefWire(t, v) ==
    CASE t.k = "String" -> {LE(Len(v), 8) \o v}
      [] t.k = "Slice" -> {LE(Len(v), 8) \o b : b \in RefElems(t.elem, v, 1)}
      [] t.k = "Array" -> RefElems(t.elem, v, 1)
      [] t.k = "Map" ->
           {LE(Cardinality(v.ents), 8) \o b :
              b \in UNION {RefPairs(t, ps, 1) : ps \in Orders(v.ents)}}
      [] t.k \in {"Int", "Uint"} -> {RefInt(t, v)}
      [] t.k = "Struct" -> RefFields(t.fields, v, 1)
      [] t.k = "Bool" -> {v}
      [] OTHER -> {}
RefElems(te, v, i) ==
    IF i > Len(v) THEN {<<>>}
    ELSE {a \o b : a \in RefWire(te, v[i]), b \in RefElems(te, v, i + 1)}
RefFields(fs, v, i) ==
    IF i > Len(fs) THEN {<<>>}
    ELSE IF ~fs[i].exp THEN RefFields(fs, v, i + 1)
    ELSE {a \o b : a \in RefWire(fs[i].t, v[i]), b \in RefFields(fs, v, i + 1)}
RefPairs(t, ps, i) ==
    IF i > Len(ps) THEN {<<>>}
    ELSE {a \o b \o c : a \in RefWire(t.key, ps[i][1]),
                        b \in RefWire(t.elem, ps[i][2]),
                        c \in RefPairs(t, ps, i + 1)}

\* C2: whatever Encode returns is a frame of the wire format: 8-byte
\* little-endian length or count fields, elements in index order, no count
\* for an array, every integer 8 bytes little-endian in two's complement;
\* int32 -1 is eight FF bytes, uint8 5 is 05 and seven 00, "ab" is its
\* length 2 and 61 62, []int32{1, -1, 1000} is its count 3 and three fields.
C2_WireFormat ==
    (Encoded /\ enc.err = "nil") =>
        /\ enc.b \in RefWire(ty, val)
        /\ (ty.k \in {"Int", "Uint"}) => Len(enc.b) = 8
        /\ (ty = Int32 /\ val = Word(-1, 4)) => enc.b = <<255, 255, 255, 255, 255, 255, 255, 255>>
        /\ (ty = Uint8 /\ val = Word(5, 1)) => enc.b = <<5, 0, 0, 0, 0, 0, 0, 0>>
        /\ (ty = TString /\ val = <<97, 98>>) => enc.b = <<2, 0, 0, 0, 0, 0, 0, 0, 97, 98>>
        /\ (ty = TSlice(Int32) /\ val = <<Word(1, 4), Word(-1, 4), Word(1000, 4)>>)
             => enc.b = <<3, 0, 0, 0, 0, 0, 0, 0>>
                          \o <<1, 0, 0, 0, 0, 0, 0, 0>>
                          \o <<255, 255, 255, 255, 255, 255, 255, 255>>
                          \o <<232, 3, 0, 0, 0, 0, 0, 0>>

C2_Witness ==
    /\ Encoded /\ enc.err = "nil"
    /\ ty = TSlice(Int32) /\ val = <<Word(1, 4), Word(-1, 4), Word(1000, 4)>>
    /\ Len(enc.b) = 32

\* ------------------------------------------------------------------- C3
\* C3: decoding a proper prefix of an encoding into a settable target of
\* the same plain shape ends with io.EOF or io.ErrUnexpectedEOF, without a
\* panic, without success and without reading beyond the prefix.
C3_ShortRead ==
    (Decoded /\ mode = "prefix" /\ byRef /\ Plain(ty)) =>
        /\ res.err \in EndOfStream
        /\ res.pos <= Len(buf)

C3_Witness ==
    /\ Decoded /\ mode = "prefix" /\ byRef
    /\ ty = TSlice(TString) /\ Len(val) = 2
    /\ Len(buf) > 16
    /\ res.err = "ErrUnexpectedEOF"

\* ------------------------------------------------------------------- C4
\* C4 (as claimed): whatever 64-bit value stands in the length field of a
\* String, VariableSequence or Mapping frame, Decode returns an
\* end-of-stream error or success; it never panics.
C4_LengthTrusted ==
    (Decoded /\ mode = "forged" /\ byRef) => res.err \in EndOfStream \cup {"nil"}

\* ------------------------------------------------------------------- C5
RECURSIVE FirstLeaf(_)
\* the kind of the first value the traversal of a target of type t tries to
\* store into ("none" when it stores nothing)
FirstLeaf(t) ==
    CASE t.k = "Struct" ->
           IF \A i \in 1..Len(t.fields) : ~t.fields[i].exp THEN "none"
           ELSE FirstLeaf(t.fields[CHOOSE i \in 1..Len(t.fields) :
                                     /\ t.fields[i].exp
                                     /\ \A j \in 1..(i - 1) : ~t.fields[j].exp].t)
      [] t.k = "Array" -> IF t.n = 0 THEN "none" ELSE FirstLeaf(t.elem)
      [] OTHER -> t.k

\* C5: Decode handed a string, integer or boolean by value (or a record or
\* array by value whose first stored value is one) returns ErrCantSet with
\* no byte consumed and the target as it was.
C5_CantSet ==
    (Decoded /\ ~byRef /\ FirstLeaf(ty) \in {"String", "Int", "Uint", "Bool", "Chan"}) =>
        /\ res.err = "ErrCantSet"
        /\ res.pos = 0
        /\ res.val = tgt

C5_Witness ==
    /\ Decoded /\ ~byRef /\ ty = TString /\ mode = "whole"
    /\ Len(buf) > 8 /\ tgt = <<98>>
    /\ res.err = "ErrCantSet"

\* ------------------------------------------------------------------- C6
\* C6 (as claimed): a failed Encode returns no bytes, and after a Decode
\* that returns an error the target equals its value before the call.
C6_NoPartialState ==
    /\ (Encoded /\ enc.err # "nil") => enc.b = <<>>
    /\ (Decoded /\ byRef /\ res.err \notin {"nil", "panic"})
         => Observe(ty, res.val) = Observe(ty, tgt)

\* ------------------------------------------------------------------- C7
\* the record type and value with the non-exported fields removed
RECURSIVE Keep(_, _, _)
Keep(fs, xs, i) ==
    IF i > Len(fs) THEN <<>>
    ELSE (IF fs[i].exp THEN <<xs[i]>> ELSE <<>>) \o Keep(fs, xs, i + 1)
ExportedOnly(t) == TStruct(Keep(t.fields, t.fields, 1))

\* C7: a record encodes to the encodings of its exported fields alone, in
\* declaration order, byte-identical to the encoding of the record without
\* the non-exported fields; Decode leaves every non-exported field as it
\* was, and a successful Decode has consumed the exported fields' bytes
\* only and stored them in the exported fields.
C7_UnexportedSilent ==
    /\ (Encoded /\ ty.k = "Struct" /\ enc.err = "nil") =>
          /\ enc.b = Concat([i \in 1..Len(Keep(ty.fields, val, 1)) |->
                               TheEnc(Keep(ty.fields, ty.fields, 1)[i].t,
                                      Keep(ty.fields, val, 1)[i])], 1)
          /\ enc \in Encode(ExportedOnly(ty), Keep(ty.fields, val, 1))
    /\ (Decoded /\ ty.k = "Struct" /\ byRef) =>
          /\ \A i \in 1..Len(ty.fields) : ~ty.fields[i].exp => res.val[i] = tgt[i]
          /\ (mode \in {"whole", "tail"} /\ res.err = "nil") =>
                /\ res.pos = Len(enc.b)
                /\ \A i \in 1..Len(ty.fields) : ty.fields[i].exp => res.val[i] = val[i]

C7_Witness ==
    /\ Decoded /\ ty = RecP /\ byRef /\ mode = "whole"
    /\ val = <<Word(1000, 4), Word(5, 1)>>
    /\ tgt = Full(RecP)
    /\ Len(enc.b) = 8
    /\ res = D("nil", 8, <<Word(1000, 4), Word(9, 1)>>)

\* ------------------------------------------------------------------- C8
RECURSIVE BigMap(_, _)
\* the value holds a map with more than one pair
BigMap(t, v) ==
    CASE t.k = "Map" -> Cardinality(v.ents) > 1
                          \/ \E p \in v.ents : BigMap(t.key, p[1]) \/ BigMap(t.elem, p[2])
      [] t.k \in {"Slice", "Array"} -> \E i \in 1..Len(v) : BigMap(t.elem, v[i])
      [] t.k = "Struct" -> \E i \in 1..Len(v) : BigMap(t.fields[i].t, v[i])
      [] OTHER -> FALSE

\* C8: two Encode calls on one value return the same bytes unless the value
\* holds a map of two or more pairs; for such a map both outputs are the
\* count followed by the pair encodings in some order, and both decode to
\* the map that was encoded.
C8_Determinism ==
    /\ (enc2 # NoEnc /\ ~BigMap(ty, val)) => enc2 = enc
    /\ (enc2 # NoEnc /\ ty.k = "Map") =>
          {enc.b, enc2.b} \subseteq {PairFrame(ty, ps) : ps \in Orders(val.ents)}
    /\ (pc = "decoded2" /\ ty.k = "Map" /\ byRef) =>
          /\ res.err = "nil" /\ res2.err = "nil"
          /\ res.val = res2.val
          /\ res.val.ents = val.ents

C8_Witness ==
    /\ pc = "decoded2" /\ ty.k = "Map" /\ byRef
    /\ Cardinality(val.ents) = 2
    /\ enc.b # enc2.b
    /\ tgt = Full(ty)
    /\ res2.val.ents = val.ents

\* ------------------------------------------------------------------- C9
\* the pairs a frame leaves in a map: of equal keys the last one read
LastWins(ps) ==
    {ps[i] : i \in {j \in 1..Len(ps) : \A m \in (j + 1)..Len(ps) : ps[m][1] # ps[j][1]}}

\* C9: after a successful Decode a map target, nil or populated before,
\* holds exactly the pairs of the frame, the later of two pairs with equal
\* keys, and no more pairs than the count; a slice target, whatever its
\* length and elements before, has exactly count elements, the decoded ones.
C9_Replace ==
    /\ (Decoded /\ mode = "pairs" /\ res.err = "nil") =>
          /\ ~res.val.nil
          /\ res.val.ents = LastWins(fed)
          /\ Cardinality(res.val.ents) <= Len(fed)
    /\ (Decoded /\ ty.k = "Slice" /\ mode \in {"whole", "tail", "forged"}
          /\ res.err = "nil") =>
          LET count == ToNat(Uint64(SubSeq(buf, 1, 8)))
          IN  /\ Len(res.val) = count
              /\ count <= Len(val)
              /\ Observe(ty, res.val) = Observe(ty, SubSeq(val, 1, count))
              /\ res.val = Decode(buf, ty, Zero(ty), TRUE).val

C9_Witness ==
    /\ Decoded /\ mode = "pairs" /\ res.err = "nil"
    /\ Len(fed) = 2 /\ fed[1][1] = fed[2][1] /\ fed[1][2] # fed[2][2]
    /\ tgt = Full(ty)
    /\ res.val.ents = {fed[2]}

\* ------------------------------------------------------------------ C10
\* C10: decoding an encoding followed by further bytes into a settable
\* target of the same plain shape succeeds, consumes exactly the encoding
\* and leaves the reader at the first of the further bytes.
C10_SelfDelimiting ==
    (Decoded /\ mode = "tail" /\ byRef /\ Plain(ty)) =>
        /\ res.err = "nil"
        /\ res.pos = Len(enc.b)
        /\ res.pos < Len(buf)
        /\ Observe(ty, res.val) = Observe(ty, val)

C10_Witness ==
    /\ Decoded /\ mode = "tail" /\ byRef
    /\ ty = TMap(TString, Int32) /\ Cardinality(val.ents) = 2
    /\ Len(buf) = Len(enc.b) + 2
    /\ res.err = "nil" /\ res.pos = Len(enc.b)

====
